---- MODULE Spec2Model ----
(***************************************************************************)
(* PostgreSQLEngine (pilgrimor_postgresql_engine/engine.py).               *)
(*                                                                         *)
(* One synchronous caller issues calls to execute_sql_with_return and      *)
(* execute_sql_no_return.  A call is modelled statement by statement: the  *)
(* autocommit computation, psycopg.connect, connection.cursor,             *)
(* cursor.execute, cursor.fetchall, the exit of the two `with` blocks and  *)
(* _form_result.  The driver is the environment: each of its operations    *)
(* either succeeds or raises.  The exit of `with connection` is the        *)
(* driver's context manager: commit when the block ended normally,         *)
(* rollback when an exception is propagating, then close; the commit and   *)
(* the rollback at the exit are taken not to raise.                        *)
(***************************************************************************)
EXTENDS Integers, Sequences, FiniteSets

\* ------------------------------------------------------------------ bounds
MaxCalls == 2     \* calls made on one executor
MaxRows  == 2     \* rows a fetchall returns
MaxCols  == 2     \* columns of a row

\* Opaque column values.
Values == {"a", "b"}

\* ------------------------------------------------------- Python values
\* The values a call can hand back, tagged by their Python type.
PyNone      == [t |-> "None"]
PyList(s)   == [t |-> "list", v |-> s]
PyTuple(r)  == [t |-> "tuple", v |-> r]
PyScalar(x) == [t |-> "scalar", v |-> x]
\* No value: the call has not returned (or raised instead of returning).
NoValue     == [t |-> "absent"]

\* A driver row is a tuple of column values.
Rows == UNION {[1..n -> Values] : n \in 0..MaxCols}
\* What fetchall returns: a list of rows, rows need not have equal width.
FetchResults == UNION {[1..m -> Rows] : m \in 0..MaxRows}

\* list(record): the record's values, one list element each.
ListOf(record) == PyList([i \in 1..Len(record) |-> PyScalar(record[i])])

\* Variant of FormLoop: a one-column record is appended whole.
RECURSIVE FormLoop_WholeRecord(_, _, _)
FormLoop_WholeRecord(result, k, acc) ==
    IF k > Len(result) THEN acc
    ELSE LET record == result[k] IN
         IF Len(record) >= 1
         THEN FormLoop_WholeRecord(result, k + 1,
                                   Append(acc, PyTuple(record)))
         ELSE FormLoop_WholeRecord(result, k + 1, acc)

\* Variant of FormLoop: record[0] is appended whatever the record's width.
RECURSIVE FormLoop_FirstColumn(_, _, _)
FormLoop_FirstColumn(result, k, acc) ==
    IF k > Len(result) THEN acc
    ELSE LET record == result[k] IN
         IF Len(record) >= 1
         THEN FormLoop_FirstColumn(result, k + 1,
                                   Append(acc, PyScalar(record[1])))
         ELSE FormLoop_FirstColumn(result, k + 1, acc)

\* The loop of _form_result over result[k..], appending to acc.
RECURSIVE FormLoop(_, _, _)
FormLoop(result, k, acc) ==
    IF k > Len(result) THEN acc
    ELSE LET record == result[k] IN
         IF Len(record) = 1
         THEN FormLoop(result, k + 1, Append(acc, PyScalar(record[1])))
         ELSE IF Len(record) > 1
         THEN FormLoop(result, k + 1, Append(acc, PyTuple(record)))
         ELSE FormLoop(result, k + 1, acc)

\* Variant of _form_result: an empty list for 0 rows.
_form_result_EmptyList(result) ==
    LET result_length == Len(result) IN
    IF result_length = 1 THEN ListOf(result[1])
    ELSE IF result_length = 0 THEN PyList(<<>>)
    ELSE PyList(FormLoop(result, 1, <<>>))

\* Variant of _form_result: a single row takes the loop like any other.
_form_result_NoSingleRowCase(result) ==
    LET result_length == Len(result) IN
    IF result_length = 0 THEN PyNone
    ELSE PyList(FormLoop(result, 1, <<>>))

\* _form_result(result)
_form_result(result) ==
    LET result_length == Len(result) IN
    IF result_length = 1 THEN ListOf(result[1])
    ELSE IF result_length = 0 THEN PyNone
    ELSE PyList(FormLoop(result, 1, <<>>))

\* ------------------------------------------------------------ arguments
\* in_transaction: Optional[bool] = True.
InTransactionArgs == {"omitted", "True", "False", "None"}
\* The parameter's value once the default is applied.
InTransaction(arg) == IF arg = "omitted" THEN "True" ELSE arg
\* Variant of Autocommit: the flag is passed on without the negation.
Autocommit_NotNegated(in_transaction) == in_transaction = "True"

\* autocommit = False; if not in_transaction: autocommit = True
Autocommit(in_transaction) == ~(in_transaction = "True")

\* A statement as the database sees it: whether it writes, and whether it
\* produces a result set (fetchall raises when there is none).
Statements == [writes : BOOLEAN, resultset : BOOLEAN]

Operations == {"execute_sql_with_return", "execute_sql_no_return"}

\* ------------------------------------------------------ control flow
\* Variant of RaiseTarget: a failed operation is attempted again.
RaiseTarget_Retry(stage) ==
    CASE stage = "connect" -> "connect"
      [] stage = "cursor"  -> "exit_connection"
      [] OTHER             -> "execute"

\* Where an exception raised by the driver operation `stage` goes next:
\* connect raised before any `with` was entered, cursor() inside the
\* connection block, execute and fetchall inside both blocks.
RaiseTarget(stage) ==
    CASE stage = "connect" -> "raised"
      [] stage = "cursor"  -> "exit_connection"
      [] OTHER             -> "exit_cursor"

\* Variant of AfterExecute: both methods fetch.
AfterExecute_AlwaysFetch(op) == "fetch"

\* The statement after a successful cursor.execute.
AfterExecute(op) ==
    IF op = "execute_sql_with_return" THEN "fetch" ELSE "exit_cursor"

\* Variant of ConnectionExit: the connection is left open (a pooled or
\* unscoped connection).
ConnectionExit_NoClose(exc) ==
    IF exc THEN <<"rollback">> ELSE <<"commit">>

\* The driver operations at the exit of `with ... as connection`.
ConnectionExit(exc) ==
    IF exc THEN <<"rollback", "close">> ELSE <<"commit", "close">>

VARIABLES
    pc,             \* position of the caller
    calls,          \* calls started so far; the running call's number
    op,             \* the running call's method
    arg,            \* in_transaction as passed
    stmt,           \* the statement passed
    autocommit,     \* the local of the same name
    open,           \* connections currently open
    owner,          \* connection -> the call that opened it
    connection,     \* the `connection` local (0: unbound)
    mode,           \* autocommit mode the connection was opened in
    cursorOpen,     \* the `cursor` local is an open cursor
    result,         \* the `result` local
    fetched,        \* fetchall has returned in this call
    log,            \* driver operations of the running call, in order
    error,          \* the driver error propagating ("none": none)
    raisedError,    \* the error the call ended with
    retval,         \* what the call returned
    committed,      \* calls whose statement's effects are durable
    pending,        \* effects in the connection's open transaction
    before          \* `committed` when the running call started

vars == <<pc, calls, op, arg, stmt, autocommit, open, owner, connection, mode,
          cursorOpen, result, fetched, log, error, raisedError, retval,
          committed, pending, before>>

Init ==
    /\ pc = "idle"
    /\ calls = 0
    /\ op = "execute_sql_no_return"
    /\ arg = "omitted"
    /\ stmt = [writes |-> FALSE, resultset |-> FALSE]
    /\ autocommit = FALSE
    /\ open = {}
    /\ owner = <<>>
    /\ connection = 0
    /\ mode = FALSE
    /\ cursorOpen = FALSE
    /\ result = <<>>
    /\ fetched = FALSE
    /\ log = <<>>
    /\ error = "none"
    /\ raisedError = "none"
    /\ retval = NoValue
    /\ committed = {}
    /\ pending = {}
    /\ before = {}

Finished == pc \in {"idle", "returned", "raised"}

\* The caller invokes a method; lines 52-54 / 79-81 compute autocommit.
Call(o, a, s) ==
    /\ Finished
    /\ calls < MaxCalls
    /\ calls' = calls + 1
    /\ op' = o
    /\ arg' = a
    /\ stmt' = s
    /\ autocommit' = Autocommit(InTransaction(a))
    /\ connection' = 0
    /\ mode' = FALSE
    /\ cursorOpen' = FALSE
    /\ result' = <<>>
    /\ fetched' = FALSE
    /\ log' = <<>>
    /\ error' = "none"
    /\ raisedError' = "none"
    /\ retval' = NoValue
    /\ pending' = {}
    /\ before' = committed
    /\ pc' = "connect"
    /\ UNCHANGED <<open, owner, committed>>

\* psycopg.connect(self.database_url, autocommit=autocommit) succeeds.
ConnectOk ==
    /\ pc = "connect"
    /\ LET c == Len(owner) + 1 IN
       /\ owner' = Append(owner, calls)
       /\ open' = open \cup {c}
       /\ connection' = c
    /\ mode' = autocommit
    /\ log' = Append(log, "connect")
    /\ pc' = "cursor"
    /\ UNCHANGED <<calls, op, arg, stmt, autocommit, cursorOpen, result,
                   fetched, error, raisedError, retval, committed, pending,
                   before>>

\* psycopg.connect raises: no connection exists, no block was entered.
ConnectFail ==
    /\ pc = "connect"
    /\ log' = Append(log, "connect")
    /\ error' = "connect"
    /\ raisedError' = "connect"
    /\ pc' = RaiseTarget("connect")
    /\ UNCHANGED <<calls, op, arg, stmt, autocommit, open, owner, connection,
                   mode, cursorOpen, result, fetched, retval, committed,
                   pending, before>>

\* connection.cursor() succeeds.
CursorOk ==
    /\ pc = "cursor"
    /\ cursorOpen' = TRUE
    /\ log' = Append(log, "cursor")
    /\ pc' = "execute"
    /\ UNCHANGED <<calls, op, arg, stmt, autocommit, open, owner, connection,
                   mode, result, fetched, error, raisedError, retval,
                   committed, pending, before>>

\* connection.cursor() raises inside the connection block.
CursorFail ==
    /\ pc = "cursor"
    /\ log' = Append(log, "cursor")
    /\ error' = "cursor"
    /\ pc' = RaiseTarget("cursor")
    /\ UNCHANGED <<calls, op, arg, stmt, autocommit, open, owner, connection,
                   mode, cursorOpen, result, fetched, raisedError, retval,
                   committed, pending, before>>

\* cursor.execute succeeds: a write is durable at once on an autocommit
\* connection, and part of the open transaction otherwise.
ExecuteOk ==
    /\ pc = "execute"
    /\ log' = Append(log, "execute")
    /\ IF stmt.writes
       THEN IF mode
            THEN committed' = committed \cup {calls} /\ pending' = pending
            ELSE pending' = pending \cup {calls} /\ committed' = committed
       ELSE UNCHANGED <<committed, pending>>
    /\ pc' = AfterExecute(op)
    /\ UNCHANGED <<calls, op, arg, stmt, autocommit, open, owner, connection,
                   mode, cursorOpen, result, fetched, error, raisedError,
                   retval, before>>

\* cursor.execute raises: the statement has no effect.
ExecuteFail ==
    /\ pc = "execute"
    /\ log' = Append(log, "execute")
    /\ error' = "execute"
    /\ pc' = RaiseTarget("execute")
    /\ UNCHANGED <<calls, op, arg, stmt, autocommit, open, owner, connection,
                   mode, cursorOpen, result, fetched, raisedError, retval,
                   committed, pending, before>>

\* result = cursor.fetchall() returns the rows of the result set.
FetchOk ==
    /\ pc = "fetch"
    /\ stmt.resultset
    /\ \E rows \in FetchResults : result' = rows
    /\ fetched' = TRUE
    /\ log' = Append(log, "fetch")
    /\ pc' = "exit_cursor"
    /\ UNCHANGED <<calls, op, arg, stmt, autocommit, open, owner, connection,
                   mode, cursorOpen, error, raisedError, retval, committed,
                   pending, before>>

\* cursor.fetchall() raises: always when the statement produced no result
\* set, possibly otherwise.
FetchFail ==
    /\ pc = "fetch"
    /\ log' = Append(log, "fetch")
    /\ error' = "fetch"
    /\ pc' = RaiseTarget("fetch")
    /\ UNCHANGED <<calls, op, arg, stmt, autocommit, open, owner, connection,
                   mode, cursorOpen, result, fetched, raisedError, retval,
                   committed, pending, before>>

\* Exit of `with connection.cursor() as cursor`: the cursor is closed.
ExitCursor ==
    /\ pc = "exit_cursor"
    /\ cursorOpen' = FALSE
    /\ log' = Append(log, "close_cursor")
    /\ pc' = "exit_connection"
    /\ UNCHANGED <<calls, op, arg, stmt, autocommit, open, owner, connection,
                   mode, result, fetched, error, raisedError, retval,
                   committed, pending, before>>

\* Exit of `with psycopg.connect(...) as connection`, then what follows the
\* block: the exception goes on to the caller, execute_sql_no_return falls
\* off its end (returns None), execute_sql_with_return reaches line 64.
ExitConnection ==
    /\ pc = "exit_connection"
    /\ LET ops == ConnectionExit(error # "none")
           has(o) == \E i \in 1..Len(ops) : ops[i] = o
       IN /\ log' = log \o ops
          /\ committed' = IF has("commit") THEN committed \cup pending
                          ELSE committed
          /\ pending' = IF has("commit") \/ has("rollback") THEN {}
                        ELSE pending
          /\ open' = IF has("close") THEN open \ {connection} ELSE open
    /\ IF error # "none"
       THEN /\ raisedError' = error
            /\ pc' = "raised"
            /\ retval' = retval
       ELSE /\ raisedError' = raisedError
            /\ IF op = "execute_sql_no_return"
               THEN pc' = "returned" /\ retval' = PyNone
               ELSE pc' = "form" /\ retval' = retval
    /\ UNCHANGED <<calls, op, arg, stmt, autocommit, owner, connection, mode,
                   cursorOpen, result, fetched, error, before>>

\* return self._form_result(result=result)
FormResult ==
    /\ pc = "form"
    /\ retval' = _form_result(result)
    /\ pc' = "returned"
    /\ UNCHANGED <<calls, op, arg, stmt, autocommit, open, owner, connection,
                   mode, cursorOpen, result, fetched, log, error, raisedError,
                   committed, pending, before>>

Next ==
    \/ \E o \in Operations, a \in InTransactionArgs, s \in Statements :
          Call(o, a, s)
    \/ ConnectOk
    \/ ConnectFail
    \/ CursorOk
    \/ CursorFail
    \/ ExecuteOk
    \/ ExecuteFail
    \/ FetchOk
    \/ FetchFail
    \/ ExitCursor
    \/ ExitConnection
    \/ FormResult

Spec == Init /\ [][Next]_vars

\* ------------------------------------------------------------- properties
\* How often the driver operation o occurs in the sequence l.
Count(l, o) == Cardinality({i \in 1..Len(l) : l[i] = o})

\* execute_sql_with_return has returned normally.
ReturnedWith == pc = "returned" /\ op = "execute_sql_with_return"

\* in_transaction is true: passed as True, or omitted.
Transactional == arg \in {"True", "omitted"}

C2_AutocommitIsNegation ==
    connection # 0 =>
        /\ (arg \in {"True", "omitted"} => mode = FALSE)
        /\ (arg = "False" => mode = TRUE)

\* C2 witness: execute_sql_no_return holds a connection opened for
\* in_transaction=False, in autocommit mode.
C2_Witness ==
    /\ op = "execute_sql_no_return" /\ connection # 0
    /\ arg = "False" /\ mode = TRUE

\* C3: within a call connect is attempted at most once and the statement
\* executed at most once; a call in which a driver operation raised ends
\* raising that same error and returns nothing; a driver error is the error
\* of the last operation attempted.
C3_ErrorPropagatesNoRetry ==
    /\ Count(log, "connect") <= 1
    /\ Count(log, "execute") <= 1
    /\ (Finished /\ error # "none") =>
          (pc = "raised" /\ raisedError = error /\ retval = NoValue)
    /\ pc = "raised" => error # "none"
    /\ error # "none" =>
          \E i \in 1..Len(log) :
             /\ log[i] = error
             /\ \A j \in (i + 1)..Len(log) :
                   log[j] \in {"close_cursor", "rollback", "close"}

\* C3 witness: execute_sql_with_return ended raising the error of execute.
C3_Witness ==
    /\ pc = "raised" /\ op = "execute_sql_with_return"
    /\ raisedError = "execute" /\ retval = NoValue

\* C4: when fetchall returned 0 rows, execute_sql_with_return returns None.
C4_ZeroRowsNone ==
    (ReturnedWith /\ Len(result) = 0) => retval = PyNone

\* C4 witness: a with-return call returned on an empty fetch.
C4_Witness == ReturnedWith /\ fetched /\ result = <<>>

\* C5: when fetchall returned exactly 1 row of N columns (N = 1 included),
\* the result is the list of that row's N values in column order.
C5_OneRowFlat ==
    (ReturnedWith /\ Len(result) = 1) =>
        /\ retval.t = "list"
        /\ Len(retval.v) = Len(result[1])
        /\ \A i \in 1..Len(result[1]) : retval.v[i] = PyScalar(result[1][i])

\* C5 witness: one row of one column, returned as a one-element list.
C5_Witness ==
    /\ ReturnedWith /\ Len(result) = 1 /\ Len(result[1]) = 1
    /\ retval = PyList(<<PyScalar(result[1][1])>>)

\* The fetch has more than one row.
ManyRows == ReturnedWith /\ Len(result) > 1

\* C6: when fetchall returned M > 1 rows of exactly 1 column each, the
\* result is a list of M scalars, the i-th the value of the i-th row.
C6_ManyRowsOneColumn ==
    (ManyRows /\ \A i \in 1..Len(result) : Len(result[i]) = 1) =>
        /\ retval.t = "list"
        /\ Len(retval.v) = Len(result)
        /\ \A i \in 1..Len(result) : retval.v[i] = PyScalar(result[i][1])

\* C6 witness: two one-column rows with different values.
C6_Witness ==
    /\ ManyRows
    /\ \A i \in 1..Len(result) : Len(result[i]) = 1
    /\ result[1] # result[2]

\* C7: when fetchall returned M > 1 rows of more than 1 column each, the
\* result is a list of M tuples, the i-th being the i-th row unchanged.
C7_ManyRowsManyColumns ==
    (ManyRows /\ \A i \in 1..Len(result) : Len(result[i]) > 1) =>
        /\ retval.t = "list"
        /\ Len(retval.v) = Len(result)
        /\ \A i \in 1..Len(result) : retval.v[i] = PyTuple(result[i])

\* C7 witness: two different rows of more than one column.
C7_Witness ==
    /\ ManyRows
    /\ \A i \in 1..Len(result) : Len(result[i]) > 1
    /\ result[1] # result[2]

\* C8: execute_sql_no_return never calls fetchall; its driver operations
\* are connect, cursor, one execute and the exits of the two blocks; when it
\* returns it returns None, whether or not the statement has a result set.
C8_NoReturnNeverFetches ==
    op = "execute_sql_no_return" =>
        /\ Count(log, "fetch") = 0
        /\ ~fetched /\ result = <<>>
        /\ \A i \in 1..Len(log) :
              log[i] \in {"connect", "cursor", "execute", "close_cursor",
                          "commit", "rollback", "close"}
        /\ pc = "returned" =>
              /\ retval = PyNone
              /\ log = <<"connect", "cursor", "execute", "close_cursor",
                         "commit", "close">>

\* C8 witness: execute_sql_no_return returned from a statement that has a
\* result set.
C8_Witness ==
    /\ pc = "returned" /\ op = "execute_sql_no_return"
    /\ stmt.resultset /\ Count(log, "execute") = 1

\* The i-th element of the shaped result comes from the i-th row.
FromRow(element, record) ==
    \/ element = PyTuple(record)
    \/ Len(record) = 1 /\ element = PyScalar(record[1])

\* C9: when fetchall returned more than 1 row, rows of any width, the
\* result has one element per row, the i-th coming from the i-th row.
C9_EveryRowContributes ==
    ManyRows =>
        /\ retval.t = "list"
        /\ Len(retval.v) = Len(result)
        /\ \A i \in 1..Len(result) : FromRow(retval.v[i], result[i])

\* The call has returned normally, or has left the connection block
\* normally and has only the shaping of the result before its return.
ReturnsNormally == pc \in {"form", "returned"}

\* C10: with in_transaction true the statement's effects are durable
\* exactly when the call returns normally: nothing is durable while the
\* connection block runs, and a call that raised leaves the database as it
\* was before; with in_transaction False the effects of an executed
\* statement are durable from the execute on, also when fetchall raises
\* afterwards.
C10_CommitIffReturns ==
    /\ (calls > 0 /\ Transactional) =>
          committed = before \cup
             (IF ReturnsNormally /\ stmt.writes THEN {calls} ELSE {})
    /\ pc = "form" => error = "none"
    /\ (calls > 0 /\ arg = "False" /\ stmt.writes) =>
          (calls \in committed <=>
              \E i \in 1..Len(log) :
                 log[i] = "execute" /\ error # "execute")

\* C10 witness: in a transaction, a writing statement without a result set
\* was executed, fetchall raised, and the database is as before the call.
C10_Witness ==
    /\ pc = "raised" /\ raisedError = "fetch"
    /\ Transactional /\ stmt.writes /\ ~stmt.resultset
    /\ committed = before

\* C10 witness, autocommit side: the same statement with
\* in_transaction=False stays durable although the call raised.
C10_WitnessAutocommit ==
    /\ pc = "raised" /\ raisedError = "fetch"
    /\ arg = "False" /\ stmt.writes
    /\ calls \in committed

====
